---- MODULE Spec2Model ----
(***************************************************************************)
(* Model of sensex_expiry_downloader.py: the fetch / retry / aggregate /   *)
(* upload pipeline of main(), with download_symbol run by a                *)
(* ThreadPoolExecutor and send_zip_to_telegram posting through a urllib3   *)
(* Retry policy.                                                           *)
(***************************************************************************)
EXTENDS Integers, Sequences, FiniteSets, TLC

\* ------------------------------------------------------------ bounds
\* Largest number of rows get_option_symbols hands to main in this model.
MaxTasks == 3

\* ------------------------------------------------------------ config
MAX_RETRIES == 3
MAX_WORKERS == 3
\* Retry(total=5, ...)
RETRY_TOTAL == 5
\* time.sleep((i + 1) * 5)
BACKOFF_STEP == 5

\* Retry(status_forcelist=[429,500,502,503])
status_forcelist == {429, 500, 502, 503}
\* urllib3's Retry.DEFAULT_ALLOWED_METHODS, in force because line 212 passes
\* no allowed_methods
allowed_methods == {"HEAD", "GET", "PUT", "DELETE", "OPTIONS", "TRACE"}

VARIABLES
    args,            \* main: the task list, one TradingSymbol per row
    pc,              \* main: position of the coordinator
    fut,             \* executor: state of each task's future
    dispatched,      \* executor: how often each task was handed to a pool thread
    calls,           \* per task: the getCandleData calls made, by outcome class
    slept,           \* per task: the time.sleep arguments, in order
    result,          \* per task: what download_symbol returned
    first_done,      \* the task whose future finished first (0: none yet)
    nextResult,      \* main: index of the next result ex.map yields
    success_list,
    failed_list,
    failed_details,
    zip_buf,         \* the archive: sequence of <<entry name, bytes>>
    uploads,         \* the arguments of each send_zip_to_telegram call
    retries_left,    \* Retry.total of the running session.post
    posts,           \* the answers to the POST attempts, in order
    delivered,       \* the values the send_zip_to_telegram calls returned
    tmp_file         \* the NamedTemporaryFile of send_zip_to_telegram

vars == <<args, pc, fut, dispatched, calls, slept, result, first_done, nextResult,
          success_list, failed_list, failed_details, zip_buf, uploads, retries_left,
          posts, delivered, tmp_file>>

fetchVars == <<fut, dispatched, calls, slept, result, first_done>>
listVars == <<success_list, failed_list, failed_details, zip_buf>>
uploadVars == <<uploads, retries_left, posts, delivered, tmp_file>>

\* ------------------------------------------------------------ values
None == "None"
\* Python's None where a response is expected, and where bytes are expected
NoResponse == [present |-> FALSE, status |-> FALSE, data |-> <<>>]
NoBytes == <<>>

\* row["TradingSymbol"] of the i-th row; the symbol master names each
\* contract once
TradingSymbol(i) == <<"BSX", i>>

Tasks == 1..Len(args)

\* What one smart.getCandleData(params) call can do.
CandleOutcomes == {"raises", "none", "unsuccessful", "empty", "rows", "malformed"}

\* One candle row of attempt k for a symbol: Date, Open, High, Low, Close, Volume
GoodRow(symbol, k) == <<k, symbol, 0, 0, 0, 0>>
\* A row that carries neither five nor six fields
ShortRow(symbol, k) == <<k, symbol, 0, 0>>

\* The value r of line 237 for each outcome other than "raises"
Response(o, symbol, k) ==
    CASE o = "none"         -> NoResponse
      [] o = "unsuccessful" -> [present |-> TRUE, status |-> FALSE, data |-> <<>>]
      [] o = "empty"        -> [present |-> TRUE, status |-> TRUE, data |-> <<>>]
      [] o = "rows"         -> [present |-> TRUE, status |-> TRUE, data |-> <<GoodRow(symbol, k)>>]
      [] o = "malformed"    -> [present |-> TRUE, status |-> TRUE, data |-> <<ShortRow(symbol, k)>>]
      [] OTHER              -> NoResponse

\* Python truthiness of a response / of a sequence
Truthy(r) == r.present
NonEmpty(s) == Len(s) > 0

StatusOk_never(r) == FALSE

StatusOk_needs_data(r) == Truthy(r) /\ r.status /\ NonEmpty(r.data)

\* line 238: r and r.get("status")
StatusOk(r) == Truthy(r) /\ r.status

\* How an attempt is entered in calls: the loop of get_candles_with_retry
\* treats an exception, a falsy response and a falsy status alike.
Class(o) == IF o \in {"raises", "none", "unsuccessful"} THEN "transient" ELSE o

MoreAttempts_short(i) == i < MAX_RETRIES - 1

\* line 235: for i in range(MAX_RETRIES)
MoreAttempts(i) == i < MAX_RETRIES

BackoffDelay_from_zero(i) == i * BACKOFF_STEP

\* lines 240, 242: time.sleep((i + 1) * 5)
BackoffDelay(i) == (i + 1) * BACKOFF_STEP

\* lines 261-264: pd.DataFrame(data, columns=[six names]) raises ValueError
\* unless every row has six fields
FitsColumns(data) == \A j \in 1..Len(data) : Len(data[j]) = 6

\* lines 266-269: the workbook bytes written for the rows
ToExcel(data) == <<"xlsx", data>>

\* lines 259-271: download_symbol after get_candles_with_retry returned r.
\* "raised" stands for the exception leaving download_symbol.
download_symbol(symbol, r) ==
    IF Truthy(r) /\ NonEmpty(r.data)
    THEN IF FitsColumns(r.data)
         THEN [kind |-> "returned", symbol |-> symbol, data |-> ToExcel(r.data), err |-> None]
         ELSE [kind |-> "raised", symbol |-> symbol, data |-> NoBytes, err |-> "ValueError"]
    ELSE [kind |-> "returned", symbol |-> symbol, data |-> NoBytes, err |-> "No data"]

NoResult == [kind |-> "pending", symbol |-> <<>>, data |-> NoBytes, err |-> None]

EntryName_fixed(symbol) == <<TradingSymbol(0), ".xlsx">>

\* line 306: f"{symbol}.xlsx"
EntryName(symbol) == <<symbol, ".xlsx">>

Range(s) == {s[j] : j \in 1..Len(s)}

\* ------------------------------------------------------------ initial state
\* main up to line 300 for n rows: the archive is created empty and args
\* holds the rows.
InitFor(n) ==
    /\ args = [i \in 1..n |-> TradingSymbol(i)]
    /\ pc = "map"
    /\ fut = [t \in Tasks |-> "unsubmitted"]
    /\ dispatched = [t \in Tasks |-> 0]
    /\ calls = [t \in Tasks |-> <<>>]
    /\ slept = [t \in Tasks |-> <<>>]
    /\ result = [t \in Tasks |-> NoResult]
    /\ first_done = 0
    /\ nextResult = 1
    /\ success_list = <<>>
    /\ failed_list = <<>>
    /\ failed_details = <<>>
    /\ zip_buf = <<>>
    /\ uploads = <<>>
    /\ retries_left = RETRY_TOTAL
    /\ posts = <<>>
    /\ delivered = <<>>
    /\ tmp_file = "none"

Init == \E n \in 0..MaxTasks : InitFor(n)

\* A run with one more task than the pool has threads.
PoolInit == InitFor(MAX_WORKERS + 1)

\* ------------------------------------------------------------ executor
\* line 303: ex.map submits every task before the first result is read.
SubmitAll ==
    /\ pc = "map"
    /\ pc' = "collect"
    /\ fut' = [t \in Tasks |-> "pending"]
    /\ UNCHANGED <<args, dispatched, calls, slept, result, first_done, nextResult, listVars,
                   uploadVars>>

Running == {t \in Tasks : fut[t] = "running"}

PoolHasIdleThread_one_more(busy) == busy <= MAX_WORKERS

\* line 302: ThreadPoolExecutor(MAX_WORKERS) runs at most MAX_WORKERS threads
PoolHasIdleThread(busy) == busy < MAX_WORKERS

\* A pool thread takes the oldest queued work item.
StartTask(t) ==
    /\ fut[t] = "pending"
    /\ \A u \in Tasks : u < t => fut[u] # "pending"
    /\ PoolHasIdleThread(Cardinality(Running))
    /\ fut' = [fut EXCEPT ![t] = "running"]
    /\ dispatched' = [dispatched EXCEPT ![t] = @ + 1]
    /\ UNCHANGED <<args, pc, calls, slept, result, first_done, nextResult, listVars, uploadVars>>

\* One pass of the loop of get_candles_with_retry for task t (lines 235-242),
\* followed, when the loop ends, by the rest of download_symbol.
Attempt(t) ==
    /\ fut[t] = "running"
    /\ MoreAttempts(Len(calls[t]))
    /\ \E o \in CandleOutcomes :
        LET i == Len(calls[t])
            r == Response(o, args[t], i + 1)
            done(res) == /\ result' = [result EXCEPT ![t] = res]
                         /\ fut' = [fut EXCEPT ![t] = res.kind]
                         /\ first_done' = IF first_done = 0 THEN t ELSE first_done
        IN  /\ calls' = [calls EXCEPT ![t] = Append(@, Class(o))]
            /\ IF o # "raises" /\ StatusOk(r)
               THEN /\ slept' = slept
                    /\ done(download_symbol(args[t], r))
               ELSE /\ slept' = [slept EXCEPT ![t] = Append(@, BackoffDelay(i))]
                    /\ IF MoreAttempts(i + 1)
                       THEN UNCHANGED <<fut, result, first_done>>
                       ELSE done(download_symbol(args[t], NoResponse))
    /\ UNCHANGED <<args, pc, dispatched, nextResult, listVars, uploadVars>>

\* ------------------------------------------------------------ main loop
\* lines 305-306: zf.writestr(f"{symbol}.xlsx", data) on the archive opened
\* for appending
WriteEntry(res) ==
    /\ zip_buf' = Append(zip_buf, <<EntryName(res.symbol), res.data>>)
    /\ UNCHANGED <<success_list, failed_list, failed_details>>

AppendSuccess_overwrite(res) ==
    /\ success_list' = <<res.symbol>>
    /\ UNCHANGED <<failed_list, failed_details, zip_buf>>

AppendSuccess_front(res) ==
    /\ success_list' = <<res.symbol>> \o success_list
    /\ UNCHANGED <<failed_list, failed_details, zip_buf>>

\* line 307: success_list.append(symbol)
AppendSuccess(res) ==
    /\ success_list' = Append(success_list, res.symbol)
    /\ UNCHANGED <<failed_list, failed_details, zip_buf>>

AppendFailed_skip(res) == UNCHANGED <<success_list, failed_list, failed_details, zip_buf>>

\* line 309: failed_list.append(symbol)
AppendFailed(res) ==
    /\ failed_list' = Append(failed_list, res.symbol)
    /\ UNCHANGED <<success_list, failed_details, zip_buf>>

\* line 310: failed_details.append((symbol, err))
AppendDetail(res) ==
    /\ failed_details' = Append(failed_details, <<res.symbol, res.err>>)
    /\ UNCHANGED <<success_list, failed_list, zip_buf>>

\* lines 303-306, 309: ex.map yields the results in the order of args; once the
\* future of the next one has finished, the loop body runs its first
\* statement: the archive entry is written, or the symbol joins failed_list.
Collect ==
    /\ pc = "collect"
    /\ nextResult \in Tasks
    /\ fut[nextResult] = "returned"
    /\ LET res == result[nextResult]
       IN  IF NonEmpty(res.data) THEN WriteEntry(res) ELSE AppendFailed(res)
    /\ pc' = "record"
    /\ UNCHANGED <<args, nextResult, fetchVars, uploadVars>>

\* lines 307, 310: the second statement of the loop body; no lock is held
\* between the two statements.
Record ==
    /\ pc = "record"
    /\ LET res == result[nextResult]
       IN  IF NonEmpty(res.data) THEN AppendSuccess(res) ELSE AppendDetail(res)
    /\ nextResult' = nextResult + 1
    /\ pc' = "collect"
    /\ UNCHANGED <<args, fetchVars, uploadVars>>

\* line 303: the future of the next result holds an exception. result()
\* re-raises it in main; the iterator cancels the futures not yet started and
\* the with block waits for the running ones.
CollectRaises ==
    /\ pc = "collect"
    /\ nextResult \in Tasks
    /\ fut[nextResult] = "raised"
    /\ fut' = [t \in Tasks |-> IF fut[t] = "pending" THEN "cancelled" ELSE fut[t]]
    /\ pc' = "unwind"
    /\ UNCHANGED <<args, dispatched, calls, slept, result, first_done, nextResult, listVars,
                   uploadVars>>

\* lines 302, 324-329: ThreadPoolExecutor.__exit__ returns once no task runs;
\* the exception then reaches the handler of __main__, which exits with 1.
Fatal ==
    /\ pc = "unwind"
    /\ Running = {}
    /\ pc' = "fatal"
    /\ UNCHANGED <<args, fetchVars, nextResult, listVars, uploadVars>>

ShouldUpload_always(successes) == TRUE

\* line 312: if success_list
ShouldUpload(successes) == NonEmpty(successes)

AllYielded_early(n) == n >= Len(args)

AllYielded_strict(n) == n > Len(args) + 1

\* line 303: the for loop ends when ex.map has yielded a result for every
\* element of args
AllYielded(n) == n = Len(args) + 1

\* lines 206-208: what creating and filling the temporary file can do
TmpOutcomes == {"written", "write_fails"}

\* lines 302, 312-320, 206-208: the loop is exhausted and the with block is
\* left. With successes, the archive is read and handed to
\* send_zip_to_telegram, which creates the temporary file (delete=False) and
\* writes the bytes to it; a failing write leaves the function through the
\* with statement, outside the try, and reaches the handler of __main__.
\* Without successes main logs "Script completed cleanly" and exits with 0.
AfterLoop ==
    /\ pc = "collect"
    /\ AllYielded(nextResult)
    /\ Running = {}
    /\ IF ShouldUpload(success_list)
       THEN /\ uploads' = Append(uploads, zip_buf)
            /\ tmp_file' = "exists"
            /\ \E w \in TmpOutcomes : pc' = IF w = "written" THEN "post" ELSE "fatal"
       ELSE /\ uploads' = uploads
            /\ tmp_file' = tmp_file
            /\ pc' = "done"
    /\ UNCHANGED <<args, fetchVars, nextResult, listVars, retries_left, posts, delivered>>

\* ------------------------------------------------------------ upload
\* What one POST attempt of the adapter can meet.
ConnectTimeout == [error |-> "ConnectTimeout", status |-> 0]
ReadTimeout == [error |-> "ReadTimeout", status |-> 0]
HttpStatus(code) == [error |-> "none", status |-> code]
PostAnswers == {ConnectTimeout, ReadTimeout} \cup {HttpStatus(c) : c \in {200, 401, 429, 503}}

is_retry_any_error(method, status_code) == status_code >= 400

\* urllib3 Retry.is_retry for the policy of line 212
is_retry(method, status_code) ==
    /\ method \in allowed_methods
    /\ status_code \in status_forcelist

\* urllib3 Retry.increment: which failures of a request the policy retries.
\* A connect error is retried for every method, a read error only for the
\* allowed methods.
Retryable(method, answer) ==
    CASE answer.error = "ConnectTimeout" -> TRUE
      [] answer.error = "ReadTimeout"    -> method \in allowed_methods
      [] OTHER                           -> is_retry(method, answer.status)

\* Retry.is_exhausted, after increment took one from total
Exhausted(total) == total < 0

\* line 222: r.raise_for_status()
raise_for_status(status_code) == status_code >= 400 /\ status_code < 600

\* lines 216-228, 319-320: one attempt of session.post. The attempt is
\* retried, or send_zip_to_telegram removes the temporary file in its finally
\* block and returns True or False; main ignores the value, logs "Script
\* completed cleanly" and exits with 0.
Post ==
    /\ pc = "post"
    /\ \E answer \in PostAnswers :
        /\ posts' = Append(posts, answer)
        /\ tmp_file' = IF Retryable("POST", answer) /\ ~Exhausted(retries_left - 1)
                       THEN tmp_file
                       ELSE "removed"
        /\ IF Retryable("POST", answer)
           THEN /\ retries_left' = retries_left - 1
                /\ IF Exhausted(retries_left - 1)
                   THEN delivered' = <<FALSE>> /\ pc' = "done"
                   ELSE delivered' = delivered /\ pc' = "post"
           ELSE /\ retries_left' = retries_left
                /\ delivered' = <<answer.error = "none" /\ ~raise_for_status(answer.status)>>
                /\ pc' = "done"
    /\ UNCHANGED <<args, fetchVars, nextResult, listVars, uploads>>

Next ==
    \/ SubmitAll
    \/ \E t \in Tasks : StartTask(t)
    \/ \E t \in Tasks : Attempt(t)
    \/ Collect
    \/ Record
    \/ CollectRaises
    \/ Fatal
    \/ AfterLoop
    \/ Post

Spec == Init /\ [][Next]_vars

\* The run over MAX_WORKERS + 1 tasks
PoolSpec == PoolInit /\ [][Next]_vars

\* Every data-source call and every POST returns or raises, and the threads
\* keep being scheduled: a step that can be taken is taken.
FairSpec == Spec /\ WF_vars(Next)

\* ------------------------------------------------------------ sequential reference
\* lines 234-243 as a function of the outcomes the calls of one task meet:
\* the response get_candles_with_retry returns, from loop index i on.
RECURSIVE get_candles_with_retry(_, _, _)
get_candles_with_retry(symbol, outcomes, i) ==
    IF ~MoreAttempts(i) \/ i >= Len(outcomes)
    THEN NoResponse
    ELSE LET r == Response(outcomes[i + 1], symbol, i + 1)
         IN  IF outcomes[i + 1] # "raises" /\ StatusOk(r)
             THEN r
             ELSE get_candles_with_retry(symbol, outcomes, i + 1)

\* lines 303-310 run by one thread: task after task in the order of args, each
\* met by the outcomes in log[t], up to the first task whose download_symbol
\* raises. Gives the success and failure symbols recorded.
RECURSIVE SequentialRun(_, _, _)
SequentialRun(log, t, acc) ==
    IF t > Len(args)
    THEN acc
    ELSE LET res == download_symbol(args[t], get_candles_with_retry(args[t], log[t], 0))
         IN  IF res.kind = "raised"
             THEN acc
             ELSE IF NonEmpty(res.data)
                  THEN SequentialRun(log, t + 1, [acc EXCEPT !.successes = Append(@, res.symbol)])
                  ELSE SequentialRun(log, t + 1, [acc EXCEPT !.failures = Append(@, res.symbol)])

\* ------------------------------------------------------------ properties
FetchPhaseOver == pc \in {"post", "done"}
RunOver == pc \in {"done", "fatal"}
Resolved(t) == fut[t] \in {"returned", "raised"}
AllTransient(log) == \A j \in 1..Len(log) : log[j] = "transient"
Occurrences(x, seq) == Cardinality({j \in 1..Len(seq) : seq[j] = x})
NonDecreasing(seq) == \A j, k \in 1..Len(seq) : j < k => seq[j] <= seq[k]
IsFailure(res) == res.kind = "returned" /\ res.data = NoBytes
IsSuccess(res) == res.kind = "returned" /\ res.data # NoBytes

\* C1: once the loop over the results has ended, success_list and failed_list
\* together hold N symbols, every task symbol is in them exactly once, and no
\* symbol is in both.
C1_EveryTaskRecordedOnce ==
    FetchPhaseOver =>
        /\ Len(success_list) + Len(failed_list) = Len(args)
        /\ \A t \in Tasks :
              Occurrences(args[t], success_list) + Occurrences(args[t], failed_list) = 1
        /\ Range(success_list) \cap Range(failed_list) = {}

C1_Witness ==
    /\ pc = "done"
    /\ Len(args) >= 3
    /\ Len(success_list) >= 1
    /\ \E t \in Tasks : args[t] \in Range(failed_list) /\ calls[t] = <<"transient", "empty">>
    /\ \E t \in Tasks : args[t] \in Range(failed_list) /\ AllTransient(calls[t])

\* C2: a task all of whose getCandleData calls fail transiently is resolved,
\* as a Failure, exactly when MAX_RETRIES calls were made, no task makes more
\* than MAX_RETRIES calls, and the delays slept are non-decreasing.
C2_FailureAfterMaxRetries ==
    \A t \in Tasks :
        /\ Len(calls[t]) <= MAX_RETRIES
        /\ NonDecreasing(slept[t])
        /\ AllTransient(calls[t]) =>
              /\ Resolved(t) <=> Len(calls[t]) = MAX_RETRIES
              /\ Resolved(t) => IsFailure(result[t])
              /\ fut[t] = "running" => Len(slept[t]) = Len(calls[t])

C2_Witness ==
    \E t \in Tasks :
        /\ calls[t] = <<"transient", "transient", "transient">>
        /\ IsFailure(result[t])
        /\ Len(slept[t]) >= 2
        /\ args[t] \in Range(failed_list)

\* C3: when call k of a task is the first to return a successful response with
\* rows, it is the task's last call, the task resolves to a Success whose
\* bytes are built from the rows of call k, and those bytes are what the
\* archive holds for the symbol once the result is recorded.
C3_SuccessFromFirstGoodAttempt ==
    \A t \in Tasks : \A k \in 1..Len(calls[t]) :
        calls[t][k] = "rows" =>
            /\ k = Len(calls[t])
            /\ \A j \in 1..(k - 1) : calls[t][j] = "transient"
            /\ fut[t] = "returned"
            /\ result[t] = [kind |-> "returned", symbol |-> args[t],
                            data |-> ToExcel(<<GoodRow(args[t], k)>>), err |-> None]
            /\ (t < nextResult) =>
                  /\ args[t] \in Range(success_list)
                  /\ <<EntryName(args[t]), ToExcel(<<GoodRow(args[t], k)>>)>> \in Range(zip_buf)

C3_Witness ==
    /\ \E t \in Tasks : calls[t] = <<"transient", "rows">> /\ args[t] \in Range(success_list)
    /\ \E t \in Tasks : calls[t] = <<"transient", "transient", "rows">>
                          /\ args[t] \in Range(success_list)

EntryNames(archive) == {archive[j][1] : j \in 1..Len(archive)}

\* C4: the archive handed to send_zip_to_telegram holds one entry
\* "<symbol>.xlsx" for each symbol of success_list, no two entries of the same
\* name, and no entry for a symbol of failed_list.
C4_ArchiveMatchesSuccesses ==
    \A u \in 1..Len(uploads) :
        /\ EntryNames(uploads[u]) = {EntryName(sym) : sym \in Range(success_list)}
        /\ Cardinality(EntryNames(uploads[u])) = Len(uploads[u])
        /\ Len(uploads[u]) = Len(success_list)
        /\ \A sym \in Range(failed_list) : EntryName(sym) \notin EntryNames(uploads[u])

C4_Witness ==
    /\ pc = "done"
    /\ Len(uploads) = 1
    /\ Len(uploads[1]) = 2
    /\ Len(success_list) = 2
    /\ Len(failed_list) = 1

\* C5: send_zip_to_telegram is called at most once in a run, only with a
\* non-empty success_list, and never when success_list is empty at the end of
\* the fetch phase.
C5_NoUploadWithoutSuccess ==
    /\ Len(uploads) <= 1
    /\ Len(uploads) = 1 => NonEmpty(success_list)
    /\ (FetchPhaseOver /\ success_list = <<>>) => (uploads = <<>> /\ posts = <<>>)
    /\ posts # <<>> => uploads # <<>>

C5_Witness ==
    /\ pc = "done"
    /\ Len(args) >= 2
    /\ success_list = <<>>
    /\ Len(failed_list) = Len(args)
    /\ uploads = <<>>

UploadOver == pc = "done" /\ uploads # <<>>
TransientStatus(answer) ==
    answer.error = "none" /\ (answer.status = 429 \/ (answer.status >= 500 /\ answer.status < 600))
ClientError(answer) ==
    answer.error = "none" /\ answer.status >= 400 /\ answer.status < 500 /\ answer.status # 429

\* C6: an upload answered 429, then 503, then 200 is retried after the 429 and
\* after the 503, and ends after exactly 3 attempts, returning True.
C6_RetriedUntilSuccess ==
    /\ posts = <<HttpStatus(429)>> => pc = "post"
    /\ posts = <<HttpStatus(429), HttpStatus(503)>> => pc = "post"
    /\ posts = <<HttpStatus(429), HttpStatus(503), HttpStatus(200)>> =>
          (UploadOver /\ delivered = <<TRUE>>)

\* C7: an upload makes at most 5 attempts; an upload all of whose answers are
\* transient failures ends only when 5 attempts were made, with
\* send_zip_to_telegram returning False, and the run goes on to its normal end.
C7_FiveAttemptsThenFalse ==
    /\ Len(posts) <= 5
    /\ (UploadOver /\ \A j \in 1..Len(posts) : TransientStatus(posts[j])) =>
          (Len(posts) = 5 /\ delivered = <<FALSE>>)
    /\ posts # <<>> => pc \in {"post", "done"}

\* C8: a client-error answer (4xx other than 429) ends the upload at once:
\* it is the last attempt, send_zip_to_telegram returns False, and when it answers the first
\* attempt the upload made exactly one attempt.
C8_ClientErrorNotRetried ==
    \A j \in 1..Len(posts) :
        ClientError(posts[j]) =>
            /\ j = Len(posts)
            /\ UploadOver
            /\ delivered = <<FALSE>>
            /\ retries_left = RETRY_TOTAL - (j - 1)

C8_Witness ==
    /\ pc = "done"
    /\ posts = <<HttpStatus(401)>>
    /\ delivered = <<FALSE>>

\* C9: no task's download_symbol ends with an exception, the coordinator is
\* never ended by one, and a run that is over has recorded every task.
C9_NoTaskErrorEscapes ==
    /\ \A t \in Tasks : fut[t] # "raised"
    /\ pc \notin {"unwind", "fatal"}
    /\ RunOver => Len(success_list) + Len(failed_list) = Len(args)

\* C10: when the run is over, the symbols in success_list and in failed_list
\* under the pool of MAX_WORKERS threads are those a one-thread run of the
\* same tasks meeting the same per-task outcomes records.
C10_SameAsSequential ==
    (FetchPhaseOver \/ pc = "fatal") =>
        LET seq == SequentialRun(calls, 1, [successes |-> <<>>, failures |-> <<>>])
        IN  /\ Range(success_list) = Range(seq.successes)
            /\ Range(failed_list) = Range(seq.failures)
            /\ Len(success_list) = Len(seq.successes)
            /\ Len(failed_list) = Len(seq.failures)

\* A run in which the last task of args finished first, with successes and
\* failures among the tasks.
C10_Witness ==
    /\ pc = "done"
    /\ Len(args) = 3
    /\ first_done = 3
    /\ NonEmpty(success_list)
    /\ NonEmpty(failed_list)

SendZipReturned == uploads # <<>> /\ pc \in {"done", "fatal"}

\* C11: once send_zip_to_telegram has been left, by a return or by an
\* exception, the temporary file it created no longer exists.
C11_TmpFileRemoved ==
    SendZipReturned => tmp_file = "removed"

C13_UploadAfterJoin ==
    uploads # <<>> =>
        /\ \A t \in Tasks : Resolved(t) /\ t < nextResult
        /\ Running = {}
        /\ pc # "record"
        /\ Len(success_list) + Len(failed_list) = Len(args)
        /\ Len(failed_details) = Len(failed_list)

C13_Witness ==
    /\ pc = "post"
    /\ Len(args) = 3
    /\ first_done = 3
    /\ Len(failed_list) = 2
    /\ posts = <<>>

\* C14: a call answered with a successful response without data is the
\* task's last call: the task resolves at once to the Failure "No data", with
\* no sleep after that call, and is recorded with that reason.
C14_EmptyDataNotRetried ==
    \A t \in Tasks : \A k \in 1..Len(calls[t]) :
        calls[t][k] = "empty" =>
            /\ k = Len(calls[t])
            /\ Len(slept[t]) = k - 1
            /\ fut[t] = "returned"
            /\ result[t] = [kind |-> "returned", symbol |-> args[t],
                            data |-> NoBytes, err |-> "No data"]
            /\ (t < nextResult) => <<args[t], "No data">> \in Range(failed_details)

C14_Witness ==
    \E t \in Tasks :
        /\ calls[t] = <<"empty">>
        /\ slept[t] = <<>>
        /\ failed_details = <<<<args[t], "No data">>>>

ReasonsOf(symbol) == {d[2] : d \in {e \in Range(failed_details) : e[1] = symbol}}

\* C15: the reason recorded for a task that failed on an empty result differs
\* from the reason recorded for a task all of whose calls failed transiently.
C15_DistinctReasons ==
    \A t, u \in Tasks :
        ( /\ NonEmpty(calls[t]) /\ calls[t][Len(calls[t])] = "empty"
          /\ Len(calls[u]) = MAX_RETRIES /\ AllTransient(calls[u]) )
        => ReasonsOf(args[t]) \cap ReasonsOf(args[u]) = {}

IndexIn(seq, x) == CHOOSE j \in 1..Len(seq) : seq[j] = x
TaskOf(symbol) == CHOOSE t \in Tasks : args[t] = symbol
IsPrefix(a, b) == Len(a) <= Len(b) /\ \A j \in 1..Len(a) : a[j] = b[j]
InInputOrder(seq) ==
    \A j, k \in 1..Len(seq) : j < k => TaskOf(seq[j]) < TaskOf(seq[k])

\* C16 as stated: the symbol of the task that finished first stands in
\* success_list before the symbol of every task that finished later.
C16_CompletionOrder ==
    \A t \in Tasks :
        ( /\ first_done \in Tasks /\ t # first_done
          /\ args[first_done] \in Range(success_list)
          /\ args[t] \in Range(success_list) )
        => IndexIn(success_list, args[first_done]) < IndexIn(success_list, args[t])

\* C16 as amended: success_list only grows at its end, and its symbols stand
\* in the order of their tasks in args, whatever the order of completion.
C16_InputOrder ==
    /\ []InInputOrder(success_list)
    /\ [][IsPrefix(success_list, success_list')]_vars

\* The second task finished first and both succeeded: the first task's symbol
\* is still the first of success_list.
C16_Witness ==
    /\ first_done = 2
    /\ Len(success_list) >= 2
    /\ success_list[1] = args[1]
    /\ success_list[2] = args[2]

\* C17: in every state the archive's entry names are those of the symbols of
\* success_list, and failed_list and failed_details name the same symbols in
\* the same order.
C17_JointInvariant ==
    /\ EntryNames(zip_buf) = {EntryName(sym) : sym \in Range(success_list)}
    /\ Len(failed_list) = Len(failed_details)
    /\ \A j \in 1..Len(failed_list) :
          j <= Len(failed_details) /\ failed_details[j][1] = failed_list[j]

RECURSIVE Sum(_)
Sum(seq) == IF seq = <<>> THEN 0 ELSE seq[1] + Sum(Tail(seq))
TransientCalls(log) == Cardinality({j \in 1..Len(log) : log[j] = "transient"})

\* C18: a task has slept once per failed attempt, the j-th sleep lasting 5 j
\* seconds; a task that failed all MAX_RETRIES attempts has slept 5, 10 and 15
\* seconds, 30 in all, when it resolves.
C18_SleepAfterEveryFailure ==
    \A t \in Tasks :
        /\ Len(slept[t]) = TransientCalls(calls[t])
        /\ \A j \in 1..Len(slept[t]) : slept[t][j] = 5 * j
        /\ (Resolved(t) /\ AllTransient(calls[t])) =>
              (slept[t] = <<5, 10, 15>> /\ Sum(slept[t]) = 30)

C18_Witness ==
    \E t \in Tasks :
        /\ fut[t] = "returned"
        /\ AllTransient(calls[t])
        /\ Len(calls[t]) = 3
        /\ Sum(slept[t]) = 30

\* C19: under fair scheduling every run ends; no task makes more than
\* MAX_RETRIES calls, no task is left running at the end, and the run over an
\* empty task list ends cleanly with nothing recorded and no upload.
C19_Terminates ==
    /\ <>RunOver
    /\ [](\A t \in Tasks : Len(calls[t]) <= MAX_RETRIES)
    /\ [](RunOver => Running = {})
    /\ []((RunOver /\ args = <<>>) =>
            (pc = "done" /\ success_list = <<>> /\ failed_list = <<>> /\ uploads = <<>>))

\* A run that used every fetch retry of a task and every upload retry has
\* ended.
C19_Witness ==
    /\ pc = "done"
    /\ Len(posts) = RETRY_TOTAL + 1
    /\ \E t \in Tasks : Len(calls[t]) = MAX_RETRIES
====
